---- MODULE Spec2Model ----
(***************************************************************************)
(* Model of the Bundler transform stream of gulp-bundle-assets:            *)
(* path-transform resolution, the table of resolved files, and the         *)
(* completion (flush) sequence scripts -> styles -> residual files.        *)
(*                                                                         *)
(* Paths are sequences of one-character strings, so that String.startsWith *)
(* and String.replace act on characters as they do in the source.          *)
(* A Map is a sequence of [key, value] records in insertion order.         *)
(***************************************************************************)
EXTENDS Integers, Sequences, FiniteSets, TLC

\* ---------------------------------------------------------------- bounds
MaxItems == 3
MaxRules == 2
MaxBundles == 2
MaxOptions == 1

\* ------------------------------------------------------- character paths
AppJs == <<"a", "p", "p", ".", "j", "s">>
FileA == <<"/", "a", "/">> \o AppJs
FileB == <<"/", "b", "/">> \o AppJs
FileBC == <<"/", "b", "c", "/">> \o AppJs
FileC == <<"/", "c", "/">> \o AppJs

Min(S) == CHOOSE x \in S : \A y \in S : x <= y

Range(s) == {s[i] : i \in 1..Len(s)}

\* String.prototype.startsWith
StartsWith(s, p) == Len(p) <= Len(s) /\ SubSeq(s, 1, Len(p)) = p

\* Positions at which pattern p occurs in s (1-based)
Occurrences(s, p) ==
    {i \in 1..(Len(s) - Len(p) + 1) : SubSeq(s, i, i + Len(p) - 1) = p}

\* String.prototype.replace with a string pattern: first occurrence only
Replace(s, old, new) ==
    IF Occurrences(s, old) = {} THEN s
    ELSE LET i == Min(Occurrences(s, old))
         IN SubSeq(s, 1, i - 1) \o new \o SubSeq(s, i + Len(old), Len(s))

\* process.cwd() of the modelled run
Cwd == <<"/">>

FirstSlash(s) ==
    IF \E i \in 1..Len(s) : s[i] = "/"
    THEN Min({i \in 1..Len(s) : s[i] = "/"})
    ELSE 0

RECURSIVE Segments(_)
Segments(s) ==
    LET i == FirstSlash(s)
    IN IF i = 0 THEN <<s>>
       ELSE <<SubSeq(s, 1, i - 1)>> \o Segments(SubSeq(s, i + 1, Len(s)))

RECURSIVE NormalizeSegments(_, _)
NormalizeSegments(segs, stack) ==
    IF segs = <<>> THEN stack
    ELSE LET h == Head(segs)
         IN IF h = <<>> \/ h = <<".">>
            THEN NormalizeSegments(Tail(segs), stack)
            ELSE IF h = <<".", ".">>
            THEN NormalizeSegments(Tail(segs),
                     IF stack = <<>> THEN <<>>
                     ELSE SubSeq(stack, 1, Len(stack) - 1))
            ELSE NormalizeSegments(Tail(segs), Append(stack, h))

RECURSIVE JoinSegments(_)
JoinSegments(segs) ==
    IF segs = <<>> THEN <<>>
    ELSE <<"/">> \o Head(segs) \o JoinSegments(Tail(segs))

\* path.resolve(p) with one argument: make absolute against the working
\* directory, drop empty and "." segments, apply "..", no trailing slash.
ResolvePath(p) ==
    LET abs == IF StartsWith(p, <<"/">>) THEN p ELSE Cwd \o <<"/">> \o p
        segs == NormalizeSegments(Segments(abs), <<>>)
    IN IF segs = <<>> THEN <<"/">> ELSE JoinSegments(segs)

\* ------------------------------------------------------------------ Maps
MapKeys(m) == {m[i].key : i \in 1..Len(m)}

MapHas(m, k) == k \in MapKeys(m)

MapIndex(m, k) == Min({i \in 1..Len(m) : m[i].key = k})

MapGet(m, k) == m[MapIndex(m, k)].value

\* A set that deletes an existing key and appends it again at the end
MapSetMovesToEnd(m, k, v) ==
    Append(SelectSeq(m, LAMBDA e : e.key # k), [key |-> k, value |-> v])

\* Map.prototype.set: an existing key keeps its position
MapSet(m, k, v) ==
    IF MapHas(m, k)
    THEN [m EXCEPT ![MapIndex(m, k)] = [key |-> k, value |-> v]]
    ELSE Append(m, [key |-> k, value |-> v])

\* ------------------------------------------------------ raw configuration
RelA == <<"a", "/">> \o AppJs
RelB == <<"b", "/">> \o AppJs

\* Raw [oldPath, newPath] pairs a configuration may list (relative paths)
RawRules ==
    { << <<"b">>, <<"a">> >>,
      << <<"b", "c">>, <<"a">> >>,
      << <<"b">>, <<".">> >> }

RuleLists == UNION {[1..n -> RawRules] : n \in 0..MaxRules}

\* config.bundle, in declaration order; bundle names are "m" and "x"
BundleConfigs ==
    { <<>>,
      << [key |-> "m", value |-> [scripts |-> <<RelA>>, styles |-> <<RelA, RelB>>]] >>,
      << [key |-> "m", value |-> [scripts |-> <<RelA>>]],
         [key |-> "x", value |-> [styles |-> <<RelB>>]] >> }

RawConfigs ==
    {[PathTransforms |-> r, PathTransformBasePath |-> <<>>,
      BundlesBasePath |-> <<>>, bundle |-> b] :
        r \in RuleLists, b \in BundleConfigs}

\* ----------------------------------------------------------- constructor
BasePath(configured) == IF configured = <<>> THEN Cwd ELSE configured

BuildPathTransforms(config) ==
    LET base == BasePath(config.PathTransformBasePath)
    IN [i \in 1..Len(config.PathTransforms) |->
          << ResolvePath(base \o <<"/">> \o config.PathTransforms[i][1]),
             ResolvePath(base \o <<"/">> \o config.PathTransforms[i][2]) >>]

ResolveAll(base, paths) ==
    [i \in 1..Len(paths) |-> ResolvePath(base \o <<"/">> \o paths[i])]

\* kind is "scripts" or "styles"
BuildBundles(config, kind) ==
    LET base == BasePath(config.BundlesBasePath)
        declared == SelectSeq(config.bundle,
                        LAMBDA b : kind \in DOMAIN b.value)
    IN [i \in 1..Len(declared) |->
          [key |-> declared[i].key,
           value |-> ResolveAll(base, declared[i].value[kind])]]

\* ------------------------------------------------------------ ConfigModel
\* An options value: a boolean, one environment name, or a sequence of
\* environment names (names holds the names the value carries)
OptionValues ==
    { [type |-> "boolean", names |-> <<>>],
      [type |-> "string", names |-> <<"production">>],
      [type |-> "array", names |-> <<"production", "staging">>],
      [type |-> "array", names |-> <<"staging", "production">>] }

OptionNames == <<"uglify", "rev", "useMin">>

\* The options of one bundle: option name -> value, in insertion order
OptionMaps ==
    UNION { { [i \in 1..n |-> [key |-> OptionNames[i], value |-> v[i]]] :
                v \in [1..n -> OptionValues] } : n \in 0..MaxOptions }

BundleNames == <<"vendor", "article", "main", "extra">>

\* config.bundle: bundle name -> definition, in insertion order
BundleMaps ==
    UNION { { [i \in 1..n |-> [key |-> BundleNames[i],
                                value |-> [options |-> o[i]]]] :
                o \in [1..n -> OptionMaps] } : n \in 0..MaxBundles }

\* The configuration of the documented example
ExampleBundle ==
    << [key |-> "vendor", value |-> [options |->
          << [key |-> "useMin", value |-> [type |-> "array", names |-> <<"production", "staging">>]],
             [key |-> "uglify", value |-> [type |-> "boolean", names |-> <<>>]],
             [key |-> "rev", value |-> [type |-> "boolean", names |-> <<>>]] >>]],
       [key |-> "article", value |-> [options |->
          << [key |-> "uglify", value |-> [type |-> "string", names |-> <<"production">>]],
             [key |-> "rev", value |-> [type |-> "array", names |-> <<"production", "staging">>]] >>]],
       [key |-> "main", value |-> [options |->
          << [key |-> "uglify", value |-> [type |-> "array", names |-> <<"production", "staging", "sat">>]],
             [key |-> "rev", value |-> [type |-> "string", names |-> <<"development">>]] >>]] >>

ExampleEnvironments == <<"production", "staging", "sat", "development">>

\* What the caller hands to the constructor.  kind: no configuration, a
\* plain object, or a Vinyl file whose contents evaluate to the object;
\* fileBase is the file's declared base directory.
NoSource ==
    [kind |-> "none", hasBundle |-> FALSE, hasCopy |-> FALSE,
     bundle |-> <<>>, fileBase |-> ""]

NoOptions == [hasBase |-> FALSE, base |-> ""]

Sources ==
    { NoSource }
    \cup { [kind |-> k, hasBundle |-> TRUE, hasCopy |-> c, bundle |-> b,
            fileBase |-> IF k = "file" THEN "/test/" ELSE ""] :
              k \in {"object", "file"}, c \in BOOLEAN,
              b \in BundleMaps \cup {ExampleBundle} }
    \cup { [kind |-> k, hasBundle |-> FALSE, hasCopy |-> c, bundle |-> <<>>,
            fileBase |-> IF k = "file" THEN "/test/" ELSE ""] :
              k \in {"object", "file"}, c \in BOOLEAN }

\* The options argument of the constructor: absent, or { base: ... }
ConstructorOptions ==
    { NoOptions, [hasBase |-> TRUE, base |-> "/opt/"] }

ShapeErrorMessage == "Configuration file should be in the form \"{ bundle: {}, copy: {} }\""

\* A shape test that demands both keys
IsValidShapeBothKeys(source) ==
    source.kind # "none" /\ source.hasBundle /\ source.hasCopy

\* The constructor rejects a missing configuration and one that has
\* neither a bundle nor a copy key
IsValidShape(source) ==
    source.kind # "none" /\ (source.hasBundle \/ source.hasCopy)

\* A base resolution that falls back to the source file's base directory
ResolveBaseFromFile(source, options) ==
    IF options.hasBase THEN options.base
    ELSE IF source.kind = "file" THEN source.fileBase ELSE "."

\* base: options.base when given, '.' otherwise
ResolveBase(source, options) ==
    IF options.hasBase THEN options.base ELSE "."

NotConstructed ==
    [ok |-> FALSE, error |-> "", hasBundle |-> FALSE, hasCopy |-> FALSE,
     bundle |-> <<>>, base |-> ""]

\* new ConfigModel(source, options)
ConfigModel(source, options) ==
    IF ~IsValidShape(source)
    THEN [NotConstructed EXCEPT !.error = ShapeErrorMessage]
    ELSE [ok |-> TRUE, error |-> "", hasBundle |-> source.hasBundle,
          hasCopy |-> source.hasCopy, bundle |-> source.bundle,
          base |-> ResolveBase(source, options)]

\* The environment names an options value contributes
NamesOfValue(value) ==
    IF value.type = "boolean" THEN <<>> ELSE value.names

\* Every environment name referenced, in traversal order: bundles in
\* insertion order, the options of a bundle in insertion order
RECURSIVE NamesOfOptions(_)
NamesOfOptions(options) ==
    IF options = <<>> THEN <<>>
    ELSE NamesOfValue(Head(options).value) \o NamesOfOptions(Tail(options))

RECURSIVE NamesOfBundles(_)
NamesOfBundles(bundles) ==
    IF bundles = <<>> THEN <<>>
    ELSE NamesOfOptions(Head(bundles).value.options) \o NamesOfBundles(Tail(bundles))

\* Keep the first occurrence of every name
RECURSIVE Unique(_, _)
Unique(names, seen) ==
    IF names = <<>> THEN seen
    ELSE Unique(Tail(names),
                IF \E i \in 1..Len(seen) : seen[i] = Head(names)
                THEN seen ELSE Append(seen, Head(names)))

\* getAllEnvironments without the removal of repeated names
GetAllEnvironmentsRepeating(config) == NamesOfBundles(config.bundle)

\* ConfigModel.prototype.getAllEnvironments
GetAllEnvironments(config) == Unique(NamesOfBundles(config.bundle), <<>>)

\* ------------------------------------------------------------------ state
VARIABLES
    PathTransforms,   \* seq of <<oldPathStart, newPathStart>>
    ScriptBundles,    \* Map name -> seq of absolute paths
    StyleBundles,     \* Map name -> seq of absolute paths
    ResolvedFiles,    \* Map virtual path -> file
    ResultsMap,       \* Map name -> seq of output paths
    phase,            \* Streaming, BundlingScripts, BundlingStyles, Done, Failed
    pushed,           \* items pushed downstream, in order
    calls,            \* finished _transform/_flush calls and their callback invocations
    clears,           \* number of ResolvedFiles.clear() calls
    streamed,         \* chunks handed to _transform, in arrival order
    passOut,          \* results map returned by each bundling pass
    cmInput,          \* source and options handed to the ConfigModel constructor
    cmConfig,         \* the constructed ConfigModel, or the construction failure
    cmEnvs,           \* result of getAllEnvironments
    cmPc              \* idle, new, constructed, failed, queried

cm_vars == <<cmInput, cmConfig, cmEnvs, cmPc>>

vars == <<PathTransforms, ScriptBundles, StyleBundles, ResolvedFiles,
          ResultsMap, phase, pushed, calls, clears, streamed,
          passOut, cm_vars>>

config_vars == <<PathTransforms, ScriptBundles, StyleBundles>>

Init ==
    \E config \in RawConfigs :
        /\ PathTransforms = BuildPathTransforms(config)
        /\ ScriptBundles = BuildBundles(config, "scripts")
        /\ StyleBundles = BuildBundles(config, "styles")
        /\ ResolvedFiles = <<>>
        /\ ResultsMap = <<>>
        /\ phase = "Streaming"
        /\ pushed = <<>>
        /\ calls = <<>>
        /\ clears = 0
        /\ streamed = <<>>
        /\ passOut = [scripts |-> <<>>, styles |-> <<>>]
        /\ cmInput = [source |-> NoSource, options |-> NoOptions]
        /\ cmConfig = NotConstructed
        /\ cmEnvs = <<>>
        /\ cmPc = "idle"

\* ------------------------------------------------------ ResolveVirtualPath
Max(S) == CHOOSE x \in S : \A y \in S : x >= y

\* ResolveVirtualPath that keeps scanning: the last matching rule wins
ResolveVirtualPathLastMatch(rules, path) ==
    LET matching == {i \in 1..Len(rules) : StartsWith(path, rules[i][1])}
    IN IF matching = {} THEN <<path, 0>>
       ELSE LET i == Max(matching)
            IN << ResolvePath(Replace(path, rules[i][1], rules[i][2])), i - 1 >>

ResolveVirtualPath(rules, path) ==
    LET matching == {i \in 1..Len(rules) : StartsWith(path, rules[i][1])}
    IN IF matching = {} THEN <<path, 0>>
       ELSE LET i == Min(matching)
            IN << ResolvePath(Replace(path, rules[i][1], rules[i][2])), i - 1 >>

\* ---------------------------------------------------------------- chunks
\* A Vinyl file with a path, a Vinyl file without one, and a non-Vinyl item
FilePaths == {FileA, FileB, FileBC, FileC}

Chunks ==
    {[isVinyl |-> TRUE, hasPath |-> TRUE, path |-> p] : p \in FilePaths}
    \cup {[isVinyl |-> TRUE, hasPath |-> FALSE, path |-> <<>>],
          [isVinyl |-> FALSE, hasPath |-> FALSE, path |-> <<>>]}

\* The chunk as extended by _transform; origin and arrival identify the
\* object (origin is the path it arrived with, kept in Vinyl's history).
ExtendChunk(rules, chunk, n) ==
    LET r == ResolveVirtualPath(rules, chunk.path)
    IN [path |-> r[1], Precedence |-> r[2], origin |-> chunk.path, arrival |-> n]

\* Upsert without the precedence comparison: the last file at a path wins
UpsertLastWins(table, file) == MapSet(table, file.path, file)

\* Upsert comparing with <= : an equal-precedence file replaces the incumbent
UpsertReplaceOnTie(table, file) ==
    IF MapHas(table, file.path)
    THEN IF MapGet(table, file.path).Precedence <= file.Precedence
         THEN MapSet(table, file.path, file)
         ELSE table
    ELSE MapSet(table, file.path, file)

\* Upsert that never replaces: the first file at a path stays
UpsertKeepsFirst(table, file) ==
    IF MapHas(table, file.path) THEN table ELSE MapSet(table, file.path, file)

\* Add to resolved files, handling collisions according to precedence
Upsert(table, file) ==
    IF MapHas(table, file.path)
    THEN IF MapGet(table, file.path).Precedence < file.Precedence
         THEN MapSet(table, file.path, file)
         ELSE table
    ELSE MapSet(table, file.path, file)

\* ------------------------------------------------------------- callbacks
PluginName == "gulp-bundle-assets"

NoError == [isError |-> FALSE, plugin |-> "", cause |-> ""]

PluginError(plugin, cause) == [isError |-> TRUE, plugin |-> plugin, cause |-> cause]

\* What the host's callback does when the success path invokes it: it
\* returns, or a fault is raised inside it (by whatever it runs downstream).
\* The invocation in the catch block only hands the wrapped error over.
CallbackBehaviours == {"returns", "throws"}

\* The tail of a handler: callback() inside the try block, and the catch
\* block that calls callback(new PluginError(PluginName, error)).
\* fault is "" when the body of the try block raised nothing.
Complete(fault, behaviour) ==
    IF fault # ""
    THEN <<PluginError(PluginName, fault)>>
    ELSE IF behaviour = "throws"
    THEN <<NoError, PluginError(PluginName, "CallbackFault")>>
    ELSE <<NoError>>

Reported(cb) == \E i \in 1..Len(cb) : cb[i].isError

\* ------------------------------------------------------------- _transform
\* An incompatible chunk that is swallowed instead of pushed
PushThroughDropped(out, chunk) == out

\* this.push(chunk) for an incompatible chunk
PushThrough(out, chunk) == Append(out, [src |-> "chunk", item |-> chunk])

ChunkFault(chunk) ==
    IF chunk.isVinyl /\ ~chunk.hasPath THEN "TypeError" ELSE ""

\* A _transform that moves the rule it matched to the front of the list
MoveToFront(rules, i) ==
    <<rules[i]>> \o SubSeq(rules, 1, i - 1) \o SubSeq(rules, i + 1, Len(rules))

TransformReorderingRules(chunk, behaviour) ==
    /\ phase = "Streaming"
    /\ Len(streamed) < MaxItems
    /\ streamed' = Append(streamed, chunk)
    /\ LET fault == ChunkFault(chunk)
           c == Complete(fault, behaviour)
           matching == {i \in 1..Len(PathTransforms) :
                          StartsWith(chunk.path, PathTransforms[i][1])}
       IN /\ ResolvedFiles' =
                IF fault = "" /\ chunk.isVinyl
                THEN Upsert(ResolvedFiles,
                            ExtendChunk(PathTransforms, chunk, Len(streamed) + 1))
                ELSE ResolvedFiles
          /\ PathTransforms' =
                IF fault = "" /\ chunk.isVinyl /\ matching # {}
                THEN MoveToFront(PathTransforms, Min(matching))
                ELSE PathTransforms
          /\ pushed' =
                IF fault = "" /\ ~chunk.isVinyl
                THEN PushThrough(pushed, chunk)
                ELSE pushed
          /\ calls' = Append(calls, [op |-> "_transform", cb |-> c])
          /\ phase' = IF Reported(c) THEN "Failed" ELSE "Streaming"
    /\ UNCHANGED <<cm_vars, ScriptBundles, StyleBundles, ResultsMap, clears, passOut>>

Transform(chunk, behaviour) ==
    /\ phase = "Streaming"
    /\ Len(streamed) < MaxItems
    /\ streamed' = Append(streamed, chunk)
    /\ LET fault == ChunkFault(chunk)
           c == Complete(fault, behaviour)
       IN /\ ResolvedFiles' =
                IF fault = "" /\ chunk.isVinyl
                THEN Upsert(ResolvedFiles,
                            ExtendChunk(PathTransforms, chunk, Len(streamed) + 1))
                ELSE ResolvedFiles
          /\ pushed' =
                IF fault = "" /\ ~chunk.isVinyl
                THEN PushThrough(pushed, chunk)
                ELSE pushed
          /\ calls' = Append(calls, [op |-> "_transform", cb |-> c])
          /\ phase' = IF Reported(c) THEN "Failed" ELSE "Streaming"
    /\ UNCHANGED <<cm_vars, config_vars, ResultsMap, clears, passOut>>

\* ------------------------------------------------------- BundlesProcessor
\* What a bundler factory's transform does with the files of one bundle:
\* it reports a fault, produces one generated file, or hands its source
\* files on as its output.
FactoryOutcomes == {"fault", "generated", "passthrough"}

OutputExt(kind) == IF kind = "scripts" THEN <<".", "j", "s">> ELSE <<".", "c", "s", "s">>

GeneratedFile(kind, name) ==
    LET p == <<"/", "o", "u", "t", "/", name>> \o OutputExt(kind)
    IN [path |-> p, origin |-> p]

\* The resolved files whose original path is listed under the bundle
SelectBundleFiles(files, paths) ==
    LET listed == SelectSeq(files, LAMBDA e : e.value.origin \in Range(paths))
    IN [i \in 1..Len(listed) |-> listed[i].value]

FactoryOutput(files, kind, bundle, outcome) ==
    IF outcome = "generated" THEN <<GeneratedFile(kind, bundle.key)>>
    ELSE IF outcome = "passthrough" THEN SelectBundleFiles(files, bundle.value)
    ELSE <<>>

RECURSIVE Flatten(_)
Flatten(ss) == IF ss = <<>> THEN <<>> ELSE Head(ss) \o Flatten(Tail(ss))

PathsOf(chunks) == [i \in 1..Len(chunks) |-> chunks[i].path]

\* outcomes maps each bundle name to the outcome of its factory invocation
BundlesProcessor(files, bundles, kind, outcomes) ==
    LET out == [i \in 1..Len(bundles) |->
                  FactoryOutput(files, kind, bundles[i], outcomes[bundles[i].key])]
    IN [fault |-> \E i \in 1..Len(bundles) : outcomes[bundles[i].key] = "fault",
        chunks |-> Flatten(out),
        resultsMap |-> [i \in 1..Len(bundles) |->
                          [key |-> bundles[i].key, value |-> PathsOf(out[i])]]]

\* ----------------------------------------------------------------- _flush
\* for (const chunk of chunks) this.push(chunk)
PushChunks(out, chunks, kind) ==
    out \o [i \in 1..Len(chunks) |-> [src |-> kind, item |-> chunks[i]]]

\* A pass whose output paths are not recorded
RecordResultsNothing(results, resultsMap) == results

\* for (const [name, paths] of resultsMap) this.ResultsMap.set(name, paths)
RECURSIVE RecordResults(_, _)
RecordResults(results, resultsMap) ==
    IF resultsMap = <<>> THEN results
    ELSE RecordResults(MapSet(results, Head(resultsMap).key, Head(resultsMap).value),
                       Tail(resultsMap))

\* delete file.Precedence
StripPrecedence(file) ==
    [f \in DOMAIN file \ {"Precedence"} |-> file[f]]

\* for (const [virtualPath, file] of this.ResolvedFiles) { delete ...; push }
PushResolved(out, files) ==
    out \o [i \in 1..Len(files) |->
              [src |-> "residual", item |-> StripPrecedence(files[i].value)]]

\* The resolved files pushed before the styles outputs
PushResolvedThenStyles(out, chunks, files) ==
    PushChunks(PushResolved(out, files), chunks, "styles")

\* The pushes of _flush after the styles pass: styles outputs, then the
\* resolved files
PushStylesAndResolved(out, chunks, files) ==
    PushResolved(PushChunks(out, chunks, "styles"), files)

\* A clear() that leaves the entries in place
ClearNothing(files) == files

\* this.ResolvedFiles.clear()
Clear(files) == <<>>

\* _flush up to its first await: the scripts pass is started
FlushStart ==
    /\ phase = "Streaming"
    /\ phase' = "BundlingScripts"
    /\ UNCHANGED <<cm_vars, config_vars, ResolvedFiles, ResultsMap, pushed, calls,
                   clears, streamed, passOut>>

\* The catch block of _flush, entered from an awaited bundling pass
FlushFailed(behaviour) ==
    LET c == Complete("BundlingFault", behaviour)
    IN /\ calls' = Append(calls, [op |-> "_flush", cb |-> c])
       /\ phase' = "Failed"
       /\ UNCHANGED <<cm_vars, config_vars, ResolvedFiles, ResultsMap, pushed, clears,
                      streamed, passOut>>

\* The scripts pass settles; on success its outputs are pushed and recorded
\* and the styles pass is started (second await)
ScriptsSettled(outcomes, behaviour) ==
    /\ phase = "BundlingScripts"
    /\ LET r == BundlesProcessor(ResolvedFiles, ScriptBundles, "scripts", outcomes)
       IN IF r.fault THEN FlushFailed(behaviour)
          ELSE /\ pushed' = PushChunks(pushed, r.chunks, "scripts")
               /\ ResultsMap' = RecordResults(ResultsMap, r.resultsMap)
               /\ passOut' = [passOut EXCEPT !.scripts = r.resultsMap]
               /\ phase' = "BundlingStyles"
               /\ UNCHANGED <<cm_vars, config_vars, ResolvedFiles, calls, clears,
                              streamed>>

\* The styles pass settles; on success its outputs are pushed and recorded,
\* the resolved files are pushed and cleared, and the callback is invoked
StylesSettled(outcomes, behaviour) ==
    /\ phase = "BundlingStyles"
    /\ LET r == BundlesProcessor(ResolvedFiles, StyleBundles, "styles", outcomes)
       IN IF r.fault THEN FlushFailed(behaviour)
          ELSE LET c == Complete("", behaviour)
               IN /\ pushed' = PushStylesAndResolved(pushed, r.chunks, ResolvedFiles)
                  /\ ResultsMap' = RecordResults(ResultsMap, r.resultsMap)
                  /\ passOut' = [passOut EXCEPT !.styles = r.resultsMap]
                  /\ ResolvedFiles' = Clear(ResolvedFiles)
                  /\ clears' = clears + 1
                  /\ calls' = Append(calls, [op |-> "_flush", cb |-> c])
                  /\ phase' = IF Reported(c) THEN "Failed" ELSE "Done"
                  /\ UNCHANGED <<cm_vars, config_vars, streamed>>

\* ---------------------------------------------------------- specification
Next ==
    \/ \E chunk \in Chunks, b \in CallbackBehaviours : Transform(chunk, b)
    \/ FlushStart
    \/ \E o \in [MapKeys(ScriptBundles) -> FactoryOutcomes], b \in CallbackBehaviours :
          ScriptsSettled(o, b)
    \/ \E o \in [MapKeys(StyleBundles) -> FactoryOutcomes], b \in CallbackBehaviours :
          StylesSettled(o, b)

Spec == Init /\ [][Next]_vars

\* ------------------------------------------- ConfigModel specification
bundler_vars == <<PathTransforms, ScriptBundles, StyleBundles, ResolvedFiles,
                  ResultsMap, phase, pushed, calls, clears, streamed, passOut>>

ConfigInit ==
    /\ \E source \in Sources, options \in ConstructorOptions :
          cmInput = [source |-> source, options |-> options]
    /\ cmConfig = NotConstructed
    /\ cmEnvs = <<>>
    /\ cmPc = "new"
    /\ PathTransforms = <<>>
    /\ ScriptBundles = <<>>
    /\ StyleBundles = <<>>
    /\ ResolvedFiles = <<>>
    /\ ResultsMap = <<>>
    /\ phase = "Streaming"
    /\ pushed = <<>>
    /\ calls = <<>>
    /\ clears = 0
    /\ streamed = <<>>
    /\ passOut = [scripts |-> <<>>, styles |-> <<>>]

\* new ConfigModel(source, options): it returns the object or throws
Construct ==
    /\ cmPc = "new"
    /\ cmConfig' = ConfigModel(cmInput.source, cmInput.options)
    /\ cmPc' = IF cmConfig'.ok THEN "constructed" ELSE "failed"
    /\ UNCHANGED <<cmInput, cmEnvs, bundler_vars>>

\* config.getAllEnvironments()
QueryEnvironments ==
    /\ cmPc = "constructed"
    /\ cmEnvs' = GetAllEnvironments(cmConfig)
    /\ cmPc' = "queried"
    /\ UNCHANGED <<cmInput, cmConfig, bundler_vars>>

ConfigNext == Construct \/ QueryEnvironments

ConfigSpec == ConfigInit /\ [][ConfigNext]_vars

\* ------------------------------------------------- derived for the claims
Last(s) == s[Len(s)]

\* Positions in the stream of the Vinyl files that carry a path
FileItems == {i \in 1..Len(streamed) : streamed[i].isVinyl /\ streamed[i].hasPath}

VirtualPathOf(i) == ResolveVirtualPath(PathTransforms, streamed[i].path)[1]

PrecedenceOf(i) == ResolveVirtualPath(PathTransforms, streamed[i].path)[2]

EntriesAt(files, v) == {k \in 1..Len(files) : files[k].key = v}

\* A _transform call has just been made
TransformStep == Len(streamed') = Len(streamed) + 1

FlushEnded == phase \in {"Done", "Failed"} /\ calls # <<>> /\ Last(calls).op = "_flush"

\* -------------------------------------------------------------------- C1
\* C1: for any two streamed files that resolve to the same virtual path with
\* precedences p1 < p2, in either arrival order and whatever else is
\* streamed, the table (until it is drained) holds exactly one entry at that
\* path, that entry is never the p1 file and has the highest precedence
\* streamed for the path, and it is the p2 file when no third file resolves
\* to the path.
OverrideCorrectness ==
    clears = 0 =>
      \A i, j \in FileItems :
        (VirtualPathOf(i) = VirtualPathOf(j) /\ PrecedenceOf(i) < PrecedenceOf(j)) =>
          LET v == VirtualPathOf(i)
          IN /\ Cardinality(EntriesAt(ResolvedFiles, v)) = 1
             /\ LET f == MapGet(ResolvedFiles, v)
                IN /\ f.arrival # i
                   /\ f.origin # streamed[i].path
                   /\ f.path = v
                   /\ \A k \in FileItems :
                        VirtualPathOf(k) = v => PrecedenceOf(k) <= f.Precedence
                   /\ (\A k \in FileItems : VirtualPathOf(k) = v => k \in {i, j})
                        => (f.arrival = j /\ f.origin = streamed[j].path
                            /\ f.Precedence = PrecedenceOf(j))

\* Both arrival orders have happened at one virtual path: a lower file was
\* replaced by a higher one, and a later lower file was discarded.
OverrideSeen ==
    /\ clears = 0
    /\ \E i, j, k \in FileItems :
         /\ i < j /\ j < k
         /\ VirtualPathOf(i) = VirtualPathOf(j) /\ VirtualPathOf(j) = VirtualPathOf(k)
         /\ PrecedenceOf(i) < PrecedenceOf(j) /\ PrecedenceOf(k) < PrecedenceOf(j)
         /\ MapGet(ResolvedFiles, VirtualPathOf(j)).arrival = j

\* -------------------------------------------------------------------- C2
\* C2: when a file arrives whose virtual path is occupied by an entry of
\* equal precedence, the table is left exactly as it was (the incumbent
\* stays, one entry at the path), nothing is pushed, and the call's callback
\* is first invoked without an error.
IsTie(chunk) ==
    /\ chunk.isVinyl /\ chunk.hasPath
    /\ LET r == ResolveVirtualPath(PathTransforms, chunk.path)
       IN /\ MapHas(ResolvedFiles, r[1])
          /\ MapGet(ResolvedFiles, r[1]).Precedence = r[2]

TieKeepsIncumbentStep ==
    (TransformStep /\ IsTie(Last(streamed'))) =>
        LET v == ResolveVirtualPath(PathTransforms, Last(streamed').path)[1]
        IN /\ ResolvedFiles' = ResolvedFiles
           /\ MapGet(ResolvedFiles', v).arrival < Len(streamed')
           /\ Cardinality(EntriesAt(ResolvedFiles', v)) = 1
           /\ pushed' = pushed
           /\ Last(calls').op = "_transform"
           /\ Last(calls').cb[1] = NoError

TieKeepsIncumbent == [][TieKeepsIncumbentStep]_vars

\* The same file streamed twice, and then a different file tying with it
TieSeen ==
    /\ clears = 0
    /\ \E i, j, k \in FileItems :
         /\ i < j /\ j < k
         /\ streamed[i].path = streamed[j].path
         /\ streamed[k].path # streamed[i].path
         /\ VirtualPathOf(i) = VirtualPathOf(k)
         /\ PrecedenceOf(i) = PrecedenceOf(k)
         /\ MapGet(ResolvedFiles, VirtualPathOf(i)).arrival = i
         /\ Len(calls) = Len(streamed)
         /\ \A c \in 1..Len(calls) : calls[c].cb = <<NoError>>

\* -------------------------------------------------------------------- C3
RuleBToA == << <<"/", "b">>, <<"/", "a">> >>

\* Paths of the files streamed, in arrival order
RECURSIVE FilePathsStreamed(_)
FilePathsStreamed(items) ==
    IF items = <<>> THEN <<>>
    ELSE IF Head(items).isVinyl /\ Head(items).hasPath
         THEN <<Head(items).path>> \o FilePathsStreamed(Tail(items))
         ELSE FilePathsStreamed(Tail(items))

ResidualsAt(v) ==
    {k \in 1..Len(pushed) : pushed[k].src = "residual" /\ pushed[k].item.path = v}

\* C3: with a rule list that contains a rule rewriting /b to /a at any
\* position, streaming /a/app.js and /b/app.js in either order and then
\* completing yields exactly one residual file at /a/app.js, and it is the
\* file that came from /b/app.js.
EndToEndOverride ==
    ( /\ phase = "Done"
      /\ RuleBToA \in Range(PathTransforms)
      /\ FilePathsStreamed(streamed) \in {<<FileA, FileB>>, <<FileB, FileA>>} )
    => /\ Cardinality(ResidualsAt(FileA)) = 1
       /\ \A k \in ResidualsAt(FileA) : pushed[k].item.origin = FileB

\* -------------------------------------------------------------------- C4
IsPrefixOf(q, p) == Len(q) <= Len(p) /\ \A k \in 1..Len(q) : p[k] = q[k]

\* The result the claim describes: substitute the prefix of the first rule,
\* in declaration order, whose from-prefix the path begins with
RECURSIVE FirstMatchResult(_, _, _)
FirstMatchResult(rules, path, index) ==
    IF rules = <<>> THEN <<path, 0>>
    ELSE IF IsPrefixOf(Head(rules)[1], path)
         THEN << ResolvePath(Head(rules)[2]
                     \o SubSeq(path, Len(Head(rules)[1]) + 1, Len(path))),
                 index >>
         ELSE FirstMatchResult(Tail(rules), path, index + 1)

\* C4: for every rule list and every path, ResolveVirtualPath returns the
\* path with the from-prefix of the first matching rule replaced by its
\* to-prefix together with that rule's 0-based index, and the unchanged path
\* with 0 when no rule matches; every table entry carries that result.
ResolveFirstMatch ==
    /\ \A p \in FilePaths :
          ResolveVirtualPath(PathTransforms, p) = FirstMatchResult(PathTransforms, p, 0)
    /\ \A k \in 1..Len(ResolvedFiles) :
          LET f == ResolvedFiles[k].value
          IN << f.path, f.Precedence >> = FirstMatchResult(PathTransforms, f.origin, 0)

MatchingRules(p) ==
    {i \in 1..Len(PathTransforms) : IsPrefixOf(PathTransforms[i][1], p)}

\* The table holds a file that two rules with different results match, and
\* a file that no rule matches
FirstMatchSeen ==
    /\ \E k \in 1..Len(ResolvedFiles) :
          LET f == ResolvedFiles[k].value
          IN /\ Cardinality(MatchingRules(f.origin)) >= 2
             /\ \E i, j \in MatchingRules(f.origin) :
                   PathTransforms[i] # PathTransforms[j]
             /\ f.Precedence = Min(MatchingRules(f.origin)) - 1
             /\ f.path # f.origin
    /\ \E k \in 1..Len(ResolvedFiles) :
          LET f == ResolvedFiles[k].value
          IN MatchingRules(f.origin) = {} /\ f.path = f.origin /\ f.Precedence = 0

\* -------------------------------------------------------------------- C5
PassPaths(resultsMap, name) ==
    IF MapHas(resultsMap, name) THEN MapGet(resultsMap, name) ELSE <<>>

\* C5: after a successful completion, ResultsMap[name] is the scripts pass's
\* output paths followed by the styles pass's output paths, for every bundle
\* name either pass reported.
ResultsMerged ==
    phase = "Done" =>
      \A name \in MapKeys(passOut.scripts) \cup MapKeys(passOut.styles) :
        /\ MapHas(ResultsMap, name)
        /\ MapGet(ResultsMap, name) =
              PassPaths(passOut.scripts, name) \o PassPaths(passOut.styles, name)

\* -------------------------------------------------------------------- C6
Rank(src) ==
    CASE src = "chunk" -> 0
      [] src = "scripts" -> 1
      [] src = "styles" -> 2
      [] src = "residual" -> 3

\* C6: the items pushed are, in order, what _transform passed through, then
\* the scripts-bundle outputs, then the styles-bundle outputs, then the
\* residual files; while streaming only non-file items have been pushed.
EmissionOrder ==
    /\ \A i, j \in 1..Len(pushed) :
          i < j => Rank(pushed[i].src) <= Rank(pushed[j].src)
    /\ phase = "Streaming" =>
          \A i \in 1..Len(pushed) :
             pushed[i].src = "chunk" /\ ~pushed[i].item.isVinyl
    /\ \A i \in 1..Len(pushed) :
          pushed[i].src = "chunk" => ~pushed[i].item.isVinyl

PushedFrom(src) == {i \in 1..Len(pushed) : pushed[i].src = src}

\* A completed run that pushed outputs of both passes and residual files
AllKindsEmitted ==
    /\ phase = "Done"
    /\ PushedFrom("scripts") # {}
    /\ PushedFrom("styles") # {}
    /\ Cardinality(PushedFrom("residual")) >= 2

\* -------------------------------------------------------------------- C7
\* C7: a _transform call on an item that is not a Vinyl file pushes exactly
\* that item, within the call, leaves the table and ResultsMap unchanged and
\* invokes its callback without an error first (an error in that call can
\* only come from the callback invocation itself).
PassThroughStep ==
    (TransformStep /\ ~Last(streamed').isVinyl) =>
        /\ pushed' = Append(pushed, [src |-> "chunk", item |-> Last(streamed')])
        /\ ResolvedFiles' = ResolvedFiles
        /\ ResultsMap' = ResultsMap
        /\ Len(calls') = Len(calls) + 1
        /\ Last(calls').op = "_transform"
        /\ Last(calls').cb[1] = NoError
        /\ \A i \in 1..Len(Last(calls').cb) :
              Last(calls').cb[i].isError => Last(calls').cb[i].cause = "CallbackFault"

PassThrough == [][PassThroughStep]_vars

\* A non-file item was passed through between two files
PassThroughSeen ==
    /\ phase = "Streaming"
    /\ ResolvedFiles # <<>>
    /\ \E i \in 1..Len(streamed) :
          /\ 1 < i /\ i < Len(streamed)
          /\ ~streamed[i].isVinyl
          /\ streamed[i - 1].isVinyl /\ streamed[i + 1].isVinyl
    /\ Len(pushed) = 1
    /\ \A c \in 1..Len(calls) : calls[c].cb = <<NoError>>

\* -------------------------------------------------------------------- C8
\* C8: no file pushed by the Bundler (bundle output or residual file)
\* carries a Precedence field when it is pushed.
NoPrecedenceEmitted ==
    \A i \in 1..Len(pushed) :
        pushed[i].src # "chunk" => "Precedence" \notin DOMAIN pushed[i].item

\* -------------------------------------------------------------------- C9
\* C9: every _transform and _flush call invokes its callback exactly once,
\* either with no error or with one PluginError tagged with the plugin name
\* (never both), whatever raised the fault.
FaultsReportedOnce ==
    \A c \in 1..Len(calls) :
        /\ Len(calls[c].cb) = 1
        /\ calls[c].cb[1].isError => calls[c].cb[1].plugin = PluginName

\* ------------------------------------------------------------------- C10
\* C10 as stated: the table is not cleared while streaming, and once
\* completion has finished, in success or in failure, it is empty and has
\* been cleared exactly once.
TableDrainedAlways ==
    /\ phase = "Streaming" => clears = 0
    /\ FlushEnded => (ResolvedFiles = <<>> /\ clears = 1)

BundlingFaulted == FlushEnded /\ Last(calls).cb[1].isError

\* C10 amended: the table is not cleared while streaming nor while a
\* bundling pass is pending; once both passes have succeeded it is empty,
\* cleared exactly once; when a bundler fault ends completion the table has
\* not been cleared and still holds an entry for every virtual path streamed.
TableDrainedOnSuccess ==
    /\ clears = IF FlushEnded /\ ~BundlingFaulted THEN 1 ELSE 0
    /\ (FlushEnded /\ ~BundlingFaulted) => ResolvedFiles = <<>>
    /\ BundlingFaulted =>
          MapKeys(ResolvedFiles) = {VirtualPathOf(i) : i \in FileItems}
    /\ ~FlushEnded =>
          MapKeys(ResolvedFiles) = {VirtualPathOf(i) : i \in FileItems}

\* A successful completion drained a table that held two files
DrainedSeen ==
    /\ phase = "Done"
    /\ Cardinality({VirtualPathOf(i) : i \in FileItems}) >= 2
    /\ ResolvedFiles = <<>>
    /\ clears = 1

\* ------------------------------------------------------------------- C11
ConstructionSettled == cmPc \in {"constructed", "failed", "queried"}

\* C11 as stated: construction fails with the documented message for every
\* configuration that lacks bundle or lacks copy (and for none at all), and
\* succeeds only when both keys are present.
ConstructionNeedsBothKeys ==
    ConstructionSettled =>
      LET src == cmInput.source
      IN /\ cmConfig.ok <=> (src.kind # "none" /\ src.hasBundle /\ src.hasCopy)
         /\ ~cmConfig.ok => cmConfig.error = ShapeErrorMessage

\* C11 amended: construction fails with the documented message when no
\* configuration is given or when it has neither a bundle nor a copy key;
\* it succeeds as soon as one of the two keys is present.
ConstructionNeedsAKey ==
    ConstructionSettled =>
      LET src == cmInput.source
      IN /\ cmConfig.ok <=> (src.kind # "none" /\ (src.hasBundle \/ src.hasCopy))
         /\ ~cmConfig.ok => (cmConfig.error = ShapeErrorMessage /\ cmPc = "failed")
         /\ cmConfig.ok => (cmConfig.error = "" /\ cmPc # "failed")

\* A configuration with a bundle key and no copy key was constructed and
\* queried
BundleOnlyConstructed ==
    /\ cmPc = "queried"
    /\ cmConfig.ok
    /\ cmInput.source.hasBundle /\ ~cmInput.source.hasCopy

\* ------------------------------------------------------------------- C12
\* Positions <<bundle, option, name>> at which a name is referenced
References(bundles) ==
    UNION { UNION { { <<b, o, n>> :
                        n \in 1..Len(bundles[b].value.options[o].value.names) } :
                    o \in { k \in 1..Len(bundles[b].value.options) :
                              bundles[b].value.options[k].value.type # "boolean" } } :
            b \in 1..Len(bundles) }

NameAt(bundles, r) == bundles[r[1]].value.options[r[2]].value.names[r[3]]

Before(r, q) ==
    \/ r[1] < q[1]
    \/ r[1] = q[1] /\ r[2] < q[2]
    \/ r[1] = q[1] /\ r[2] = q[2] /\ r[3] < q[3]

\* The first reference to a name, in traversal order
FirstReference(bundles, name) ==
    CHOOSE r \in References(bundles) :
        /\ NameAt(bundles, r) = name
        /\ \A q \in References(bundles) :
              NameAt(bundles, q) = name => (q = r \/ Before(r, q))

\* C12: getAllEnvironments returns every environment name referenced by an
\* options value under bundle exactly once, ordered by first reference over
\* bundles and options in insertion order; booleans contribute nothing, no
\* reference gives the empty sequence, and the documented example gives
\* production, staging, sat, development.
EnvironmentsFirstSeen ==
    cmPc = "queried" =>
      LET refs == References(cmConfig.bundle)
      IN /\ \A i, j \in 1..Len(cmEnvs) : i # j => cmEnvs[i] # cmEnvs[j]
         /\ Range(cmEnvs) = {NameAt(cmConfig.bundle, r) : r \in refs}
         /\ \A i, j \in 1..Len(cmEnvs) :
               i < j => Before(FirstReference(cmConfig.bundle, cmEnvs[i]),
                               FirstReference(cmConfig.bundle, cmEnvs[j]))
         /\ refs = {} => cmEnvs = <<>>
         /\ cmConfig.bundle = ExampleBundle => cmEnvs = ExampleEnvironments

\* The documented example was queried
ExampleQueried ==
    /\ cmPc = "queried"
    /\ cmConfig.bundle = ExampleBundle
    /\ cmEnvs = ExampleEnvironments

\* ------------------------------------------------------------------- C13
\* C13 as stated: base is options.base when supplied, otherwise the source
\* file's declared base directory when the source is a file, otherwise '.'.
BaseThreeTiers ==
    (ConstructionSettled /\ cmConfig.ok) =>
      cmConfig.base =
        IF cmInput.options.hasBase THEN cmInput.options.base
        ELSE IF cmInput.source.kind = "file" THEN cmInput.source.fileBase
        ELSE "."

\* C13 amended: base is options.base when supplied and '.' otherwise, also
\* when the source is a file (the file's declared base directory is not
\* used).
BaseFromOptionsOrDot ==
    (ConstructionSettled /\ cmConfig.ok) =>
      cmConfig.base =
        IF cmInput.options.hasBase THEN cmInput.options.base ELSE "."

\* A file-backed configuration was constructed without options
FileConstructedWithoutOptions ==
    /\ cmPc = "constructed"
    /\ cmInput.source.kind = "file"
    /\ cmInput.source.fileBase = "/test/"
    /\ ~cmInput.options.hasBase
    /\ cmConfig.base = "."

\* ------------------------------------------------------------------- C14
\* q is a path-prefix of p: p is q, or continues q at a segment boundary
IsPathPrefixOf(q, p) ==
    /\ IsPrefixOf(q, p)
    /\ \/ Len(p) = Len(q)
       \/ q[Len(q)] = "/"
       \/ p[Len(q) + 1] = "/"

RECURSIVE PathPrefixResult(_, _, _)
PathPrefixResult(rules, path, index) ==
    IF rules = <<>> THEN <<path, 0>>
    ELSE IF IsPathPrefixOf(Head(rules)[1], path)
         THEN << ResolvePath(Head(rules)[2]
                     \o SubSeq(path, Len(Head(rules)[1]) + 1, Len(path))),
                 index >>
         ELSE PathPrefixResult(Tail(rules), path, index + 1)

\* C14: a rule is applied to a path only when its from-prefix is a
\* path-prefix of it (equal, or continued at a segment boundary); a file
\* whose path merely shares leading characters with a from-prefix is kept at
\* its own path with precedence 0 unless another rule matches.
PathPrefixMatching ==
    \A k \in 1..Len(ResolvedFiles) :
        LET f == ResolvedFiles[k].value
        IN << f.path, f.Precedence >> = PathPrefixResult(PathTransforms, f.origin, 0)

\* ------------------------------------------------------------------- C15
RECURSIVE PushedPaths(_, _)
PushedPaths(out, src) ==
    IF out = <<>> THEN <<>>
    ELSE (IF Head(out).src = src THEN <<Head(out).item.path>> ELSE <<>>)
         \o PushedPaths(Tail(out), src)

RECURSIVE PathsOfPass(_)
PathsOfPass(resultsMap) ==
    IF resultsMap = <<>> THEN <<>>
    ELSE Head(resultsMap).value \o PathsOfPass(Tail(resultsMap))

Recorded(resultsMap) ==
    \A i \in 1..Len(resultsMap) :
        /\ MapHas(ResultsMap, resultsMap[i].key)
        /\ MapGet(ResultsMap, resultsMap[i].key) = resultsMap[i].value

FlushStarted == phase \in {"BundlingScripts", "BundlingStyles"} \/ FlushEnded

PhaseOrder ==
    { <<"Streaming", "BundlingScripts">>, <<"Streaming", "Failed">>,
      <<"BundlingScripts", "BundlingStyles">>, <<"BundlingScripts", "Failed">>,
      <<"BundlingStyles", "Done">>, <<"BundlingStyles", "Failed">> }

PhaseInvariant ==
    /\ FlushStarted =>
          /\ Len(SelectSeq(calls, LAMBDA c : c.op = "_transform")) = Len(streamed)
          /\ \A c \in 1..Len(calls) :
                calls[c].op = "_transform" => calls[c].cb = <<NoError>>
    /\ phase \in {"Streaming", "BundlingScripts"} =>
          /\ PushedFrom("scripts") = {} /\ PushedFrom("styles") = {}
          /\ PushedFrom("residual") = {}
          /\ ResultsMap = <<>>
          /\ passOut = [scripts |-> <<>>, styles |-> <<>>]
    /\ phase = "BundlingStyles" =>
          /\ PushedPaths(pushed, "scripts") = PathsOfPass(passOut.scripts)
          /\ Len(passOut.scripts) = Len(ScriptBundles)
          /\ Recorded(passOut.scripts)
          /\ MapKeys(ResultsMap) = MapKeys(passOut.scripts)
          /\ PushedFrom("styles") = {} /\ PushedFrom("residual") = {}
          /\ passOut.styles = <<>>
          /\ clears = 0
    /\ (PushedFrom("styles") # {} \/ PushedFrom("residual") # {} \/ clears > 0) =>
          /\ PushedPaths(pushed, "scripts") = PathsOfPass(passOut.scripts)
          /\ PushedPaths(pushed, "styles") = PathsOfPass(passOut.styles)
          /\ Len(passOut.styles) = Len(StyleBundles)
          /\ Recorded(passOut.styles)
          /\ clears = 1

\* C15: completion starts only after every _transform call has finished;
\* the styles pass is started only once the scripts pass has settled and its
\* outputs are pushed and recorded in ResultsMap; residual files are pushed
\* only once the styles outputs are pushed and recorded; the phases follow
\* one another in the order Streaming, BundlingScripts, BundlingStyles,
\* Done or Failed, one at a time.
PhaseSequencing ==
    /\ []PhaseInvariant
    /\ [][phase' # phase => <<phase, phase'>> \in PhaseOrder]_vars

\* The styles pass is pending after a scripts pass that pushed and recorded
\* outputs while the table holds files
StylesPendingAfterScripts ==
    /\ phase = "BundlingStyles"
    /\ PushedFrom("scripts") # {}
    /\ \E i \in 1..Len(ResultsMap) : ResultsMap[i].value # <<>>
    /\ Len(ResolvedFiles) >= 2

\* ------------------------------------------------------------------- C16
\* Every pending bundling pass eventually settles (its factory invocations
\* complete or fail)
FairSpec ==
    /\ Spec
    /\ WF_vars(\E o \in [MapKeys(ScriptBundles) -> FactoryOutcomes],
                  b \in CallbackBehaviours : ScriptsSettled(o, b))
    /\ WF_vars(\E o \in [MapKeys(StyleBundles) -> FactoryOutcomes],
                  b \in CallbackBehaviours : StylesSettled(o, b))

FlushCalls == SelectSeq(calls, LAMBDA c : c.op = "_flush")

\* The one outcome of a finished completion: the callback was invoked once,
\* with no error (Done) or with one wrapped error (Failed)
OneOutcome ==
    FlushEnded =>
      /\ Len(FlushCalls) = 1
      /\ Len(Last(calls).cb) = 1
      /\ phase = "Done" <=> Last(calls).cb = <<NoError>>
      /\ phase = "Failed" <=>
            (Last(calls).cb[1].isError /\ Last(calls).cb[1].plugin = PluginName)

\* C16: once started, completion runs once and eventually ends in exactly
\* one outcome, Done with an error-free callback or Failed with one wrapped
\* error; a failed scripts pass is followed by no styles pass and no
\* residual emission, and nothing happens after the outcome.
CompletionTerminates ==
    /\ FlushStarted ~> FlushEnded
    /\ []OneOutcome
    /\ [][(phase = "BundlingScripts" /\ phase' = "Failed") =>
            (pushed' = pushed /\ ResultsMap' = ResultsMap /\ passOut' = passOut
             /\ ResolvedFiles' = ResolvedFiles)]_vars
    /\ [][phase \notin {"Done", "Failed"}]_vars

\* ------------------------------------------------------------------- C17
Resolutions(rules) == [p \in FilePaths |-> ResolveVirtualPath(rules, p)]

\* C17: no _transform call changes the path-transform rules, the scripts
\* registry, the styles registry or ResultsMap; ResultsMap is empty as long
\* as the stream is in its streaming phase; and every path resolves to the
\* same virtual path and precedence before and after every step.
ImmutableAfterConstruction ==
    /\ [](phase = "Streaming" => ResultsMap = <<>>)
    /\ [][TransformStep =>
            /\ PathTransforms' = PathTransforms
            /\ ScriptBundles' = ScriptBundles
            /\ StyleBundles' = StyleBundles
            /\ ResultsMap' = ResultsMap]_vars
    /\ [][Resolutions(PathTransforms') = Resolutions(PathTransforms)]_vars

\* The same path was resolved twice, with files of other rules in between,
\* under two rules and declared bundles
ResolvedTwice ==
    /\ phase = "Streaming"
    /\ Len(PathTransforms) >= 2
    /\ PathTransforms[1] # PathTransforms[2]
    /\ ScriptBundles # <<>> /\ StyleBundles # <<>>
    /\ \E i, j, k \in FileItems :
          /\ i < j /\ j < k
          /\ streamed[i].path = streamed[k].path
          /\ streamed[j].path # streamed[i].path
          /\ PrecedenceOf(j) # PrecedenceOf(i)
          /\ MapGet(ResolvedFiles, VirtualPathOf(i)).path = VirtualPathOf(k)

\* ------------------------------------------------------------------- C18
KeySeq(m) == [i \in 1..Len(m) |-> m[i].key]

\* The distinct virtual paths of the first n stream items, in the order in
\* which each was first seen
RECURSIVE FirstSeen(_)
FirstSeen(n) ==
    IF n = 0 THEN <<>>
    ELSE LET prev == FirstSeen(n - 1)
         IN IF n \in FileItems /\ VirtualPathOf(n) \notin Range(prev)
            THEN Append(prev, VirtualPathOf(n))
            ELSE prev

\* C18: while streaming the table lists the distinct virtual paths seen so
\* far in first-seen order, a _transform call only appends to that order
\* (a replacement keeps the path's position), and a successful completion
\* emits exactly one residual file per distinct virtual path seen, in that
\* first-seen order, none missing.
ResidualOrder ==
    /\ [](clears = 0 => KeySeq(ResolvedFiles) = FirstSeen(Len(streamed)))
    /\ [](phase = "Done" =>
            PushedPaths(pushed, "residual") = FirstSeen(Len(streamed)))
    /\ [][TransformStep =>
            SubSeq(KeySeq(ResolvedFiles'), 1, Len(ResolvedFiles))
                = KeySeq(ResolvedFiles)]_vars

\* A completed run in which the first path's entry was replaced by a later
\* file of higher precedence after another path had entered the table
ReplacedInPlace ==
    /\ phase = "Done"
    /\ \E i, j, k \in FileItems :
          /\ i < j /\ j < k
          /\ VirtualPathOf(i) = VirtualPathOf(k)
          /\ VirtualPathOf(j) # VirtualPathOf(i)
          /\ PrecedenceOf(i) < PrecedenceOf(k)
          /\ PushedPaths(pushed, "residual") = <<VirtualPathOf(i), VirtualPathOf(j)>>
          /\ \E r \in PushedFrom("residual") :
                pushed[r].item.path = VirtualPathOf(k) /\ pushed[r].item.arrival = k

\* ------------------------------------------------------------------- C19
\* The arrival orders of the items streamed so far
ArrivalOrders == Permutations(1..Len(streamed))

\* The items streamed so far as _transform extends them (files only)
Extended ==
    [i \in FileItems |-> ExtendChunk(PathTransforms, streamed[i], i)]

\* The table _transform builds from the first n items taken in order f
RECURSIVE TableOver(_, _, _)
TableOver(f, n, files) ==
    IF n = 0 THEN <<>>
    ELSE LET t == TableOver(f, n - 1, files)
         IN IF f[n] \in DOMAIN files THEN Upsert(t, files[f[n]]) ELSE t

\* virtual path -> the file (by the path it arrived with) the table holds
Survivors(t) == {<<t[k].key, t[k].value.origin>> : k \in 1..Len(t)}

\* Virtual paths at which two distinct files have equal precedence
TiedPaths ==
    {VirtualPathOf(i) : i \in {i \in FileItems : \E j \in FileItems :
        /\ VirtualPathOf(j) = VirtualPathOf(i)
        /\ PrecedenceOf(j) = PrecedenceOf(i)
        /\ streamed[j].path # streamed[i].path}}

Untied(survivors, tied) == {e \in survivors : e[1] \notin tied}

\* C19: wherever streaming stands, the table is the table built from the
\* items in their arrival order, and for every other arrival order of the
\* same items under the same rules the table has the same virtual paths and,
\* at every path where no two distinct files tie in precedence, the same
\* survivor.
OrderIndependence ==
    phase = "Streaming" =>
        LET files == Extended
            tied == TiedPaths
            arrived == [i \in 1..Len(streamed) |-> i]
            held == Survivors(ResolvedFiles)
        IN /\ held = Survivors(TableOver(arrived, Len(streamed), files))
           /\ \A f \in ArrivalOrders :
                 LET t == Survivors(TableOver(f, Len(streamed), files))
                 IN /\ {e[1] : e \in t} = MapKeys(ResolvedFiles)
                    /\ Untied(t, tied) = Untied(held, tied)

\* The higher-precedence file has arrived before the lower-precedence one at
\* an untied path, next to a second path
HigherArrivedFirst ==
    /\ phase = "Streaming"
    /\ Len(ResolvedFiles) >= 2
    /\ \E i, j \in FileItems :
          /\ i < j
          /\ VirtualPathOf(i) = VirtualPathOf(j)
          /\ PrecedenceOf(i) > PrecedenceOf(j)
          /\ VirtualPathOf(i) \notin TiedPaths
          /\ MapGet(ResolvedFiles, VirtualPathOf(i)).origin = streamed[i].path

====
